---- MODULE Spec2Model ----
(***************************************************************************)
(* Model of bond_end_prices.py: a single-pass command-line pipeline        *)
(*   parse_date -> compute_window_bounds -> download_history ->            *)
(*   extract_close_series -> build_daily_frame -> mean -> write_excel ->   *)
(*   console summary.                                                      *)
(*                                                                         *)
(* Representation.                                                         *)
(*  - A calendar date is a record [y, m, d]; a pandas Timestamp is a       *)
(*    record [y, m, d, tod] with tod the time of day in seconds.           *)
(*  - A string that the code inspects character by character (a file name, *)
(*    a ticker that ends up in a file name) is a sequence of tokens; a     *)
(*    token is either "." or a non-empty string without a dot.             *)
(*  - A table cell is [k, v]: k = "num" (a number v), "numstr" (a string   *)
(*    that reads as the number v), "text" (a string that is not a number)  *)
(*    or "nan" (missing).                                                  *)
(*  - The mean of a column is the exact rational [num, den] (sum, count);  *)
(*    floating-point rounding of the division is not modelled.             *)
(*  - The provider is called with the daily interval, so every index entry *)
(*    of the raw table is a Timestamp at midnight.                         *)
(***************************************************************************)
EXTENDS Integers, Sequences, FiniteSets, TLC

\* ------------------------------------------------------------------ bounds
\* Longest raw table (rows) the provider returns in the pipeline runs.
MaxRows == 2
\* Longest raw table handed to extract_close_series on its own.
MaxExtractRows == 3
\* Longest close series handed to build_daily_frame on its own.
MaxSeries == 3
\* Reference dates of the window check range over 2023 .. 2023 + YearSpan.
YearSpan == 1

\* ------------------------------------------------------------ errors
\* A SystemExit: the kind of its message and the values the message names.
Err(kind, detail) == [kind |-> kind, detail |-> detail]

NoErr == Err("", <<>>)

\* ------------------------------------------------------------ calendar
Years == 2023 .. (2023 + YearSpan)

IsLeap(y) == (y % 4 = 0 /\ y % 100 # 0) \/ y % 400 = 0

DaysInMonth(y, m) ==
  IF m = 2 THEN (IF IsLeap(y) THEN 29 ELSE 28)
  ELSE IF m \in {4, 6, 9, 11} THEN 30 ELSE 31

IsValidDate(y, m, d) ==
  /\ y \in 1 .. 9999
  /\ m \in 1 .. 12
  /\ d \in 1 .. DaysInMonth(y, m)

Date(y, m, d) == [y |-> y, m |-> m, d |-> d]

NoDate == Date(0, 0, 0)

\* pd.Timestamp(date): the date at midnight.
Timestamp(dt) == [y |-> dt.y, m |-> dt.m, d |-> dt.d, tod |-> 0]

NoTs == Timestamp(NoDate)

\* Timestamp.date()
ToDate(ts) == Date(ts.y, ts.m, ts.d)

\* Timestamp.normalize(): the same day at midnight.
Normalize(ts) == [ts EXCEPT !.tod = 0]

\* A mutant of AddMonths: the day of month is kept without clamping, so
\* 31 December plus two months overflows into March.
AddMonthsNoClamp(ts, n) ==
  LET idx == ts.y * 12 + (ts.m - 1) + n
      y2  == idx \div 12
      m2  == (idx % 12) + 1
      over == ts.d > DaysInMonth(y2, m2)
  IN  IF over
      THEN LET idx3 == idx + 1
           IN [ts EXCEPT !.y = idx3 \div 12, !.m = (idx3 % 12) + 1,
                         !.d = ts.d - DaysInMonth(y2, m2)]
      ELSE [ts EXCEPT !.y = y2, !.m = m2]

\* ts + pd.DateOffset(months=n): the month moves by n, the day of month is
\* kept, clamped to the last day of the resulting month; time of day kept.
AddMonths(ts, n) ==
  LET idx == ts.y * 12 + (ts.m - 1) + n
      y2  == idx \div 12
      m2  == (idx % 12) + 1
      dim == DaysInMonth(y2, m2)
  IN  [ts EXCEPT !.y = y2, !.m = m2, !.d = IF ts.d > dim THEN dim ELSE ts.d]

\* ts + pd.Timedelta(days=1)
NextDay(ts) ==
  IF ts.d < DaysInMonth(ts.y, ts.m) THEN [ts EXCEPT !.d = ts.d + 1]
  ELSE IF ts.m < 12 THEN [ts EXCEPT !.m = ts.m + 1, !.d = 1]
  ELSE [ts EXCEPT !.y = ts.y + 1, !.m = 1, !.d = 1]

\* ts - pd.Timedelta(days=1); used to enumerate index entries around a bound.
PrevDay(ts) ==
  IF ts.d > 1 THEN [ts EXCEPT !.d = ts.d - 1]
  ELSE IF ts.m > 1
       THEN [ts EXCEPT !.m = ts.m - 1, !.d = DaysInMonth(ts.y, ts.m - 1)]
       ELSE [ts EXCEPT !.y = ts.y - 1, !.m = 12, !.d = 31]

\* date < date
DateLT(a, b) ==
  \/ a.y < b.y
  \/ a.y = b.y /\ a.m < b.m
  \/ a.y = b.y /\ a.m = b.m /\ a.d < b.d

\* Timestamp < Timestamp, Timestamp <= Timestamp
TsLT(a, b) ==
  \/ DateLT(ToDate(a), ToDate(b))
  \/ ToDate(a) = ToDate(b) /\ a.tod < b.tod

TsLE(a, b) == TsLT(a, b) \/ a = b

\* compute_window_bounds(target)
ComputeWindowBounds(dt) ==
  LET target_ts == Timestamp(dt)
      start_ts0 == AddMonths(target_ts, 0 - 2)
      end_ts0   == AddMonths(target_ts, 2)
  IN  [start |-> Normalize(start_ts0), end |-> Normalize(end_ts0)]

\* ------------------------------------------------------------ file paths
Tok(s) == [dot |-> FALSE, txt |-> s, dt |-> NoDate]

Dot == [dot |-> TRUE, txt |-> ".", dt |-> NoDate]

\* date.isoformat() as one token of a string (it holds no dot).
IsoTok(dt) == [dot |-> FALSE, txt |-> "iso", dt |-> dt]

\* The suffix ".xlsx"
Xlsx == <<Dot, Tok("xlsx")>>

\* Path(...): the directory parts and the tokens of the final component.
Path(dir, name) == [dir |-> dir, name |-> name]

NoPath == Path(<<>>, <<>>)

\* name.rfind('.'), 1-based; 0 when the name holds no dot.
RFindDot(name) ==
  LET dots == {i \in 1 .. Len(name) : name[i].dot}
  IN  IF dots = {} THEN 0 ELSE CHOOSE i \in dots : \A j \in dots : j <= i

\* PurePath.suffix: the final component's last dot and what follows it, unless
\* that dot is the first or the last character of the name.
Suffix(p) ==
  LET i == RFindDot(p.name)
  IN  IF 1 < i /\ i < Len(p.name) THEN SubSeq(p.name, i, Len(p.name)) ELSE <<>>

\* PurePath.stem
Stem(p) == SubSeq(p.name, 1, Len(p.name) - Len(Suffix(p)))

\* A mutant of WithSuffix: the suffix is appended whatever the name ends in.
WithSuffixAppend(p, suffix) == [p EXCEPT !.name = p.name \o suffix]

\* PurePath.with_suffix(suffix), for a path with a non-empty name.
WithSuffix(p, suffix) ==
  LET old == Suffix(p)
  IN  IF old = <<>>
      THEN [p EXCEPT !.name = p.name \o suffix]
      ELSE [p EXCEPT !.name = SubSeq(p.name, 1, Len(p.name) - Len(old)) \o suffix]

\* Path.resolve() of a relative path: made absolute against the working
\* directory (no symbolic links on the way).
Resolve(p) == [p EXCEPT !.dir = <<"/cwd">> \o p.dir]

\* Path(f"{ticker}_{target.isoformat()}_daily_closes.xlsx")
DefaultPath(ticker, dt) ==
  Path(<<>>, ticker \o <<Tok("_"), IsoTok(dt), Tok("_daily_closes"), Dot, Tok("xlsx")>>)

\* args.output if args.output else the default path
OutputPath(args, dt) ==
  IF args.output.given THEN args.output.path ELSE DefaultPath(args.ticker, dt)

\* ------------------------------------------------------------ raw tables
Num(n) == [k |-> "num", v |-> n]

NumStr(n) == [k |-> "numstr", v |-> n]

Text == [k |-> "text", v |-> 0]

NaN == [k |-> "nan", v |-> 0]

\* A column key: a field name and, in the two-level shape, a ticker.
Col(field, ticker) == [field |-> field, ticker |-> ticker]

NoCol == Col("", <<>>)

\* A mutant of ToNumeric: a non-numeric entry is kept as it is.
ToNumericKeep(cell) == IF cell.k = "numstr" THEN Num(cell.v) ELSE cell

\* pd.to_numeric(value, errors="coerce") on one entry.
ToNumeric(cell) ==
  IF cell.k \in {"num", "numstr"} THEN Num(cell.v) ELSE NaN

\* DataFrame.empty: no rows or no columns.
IsEmptyFrame(h) == Len(h.index) = 0 \/ h.columns = {}

\* The Series of one column re-keyed by the table's index, values coerced.
KeyedSeries(h, c) ==
  [i \in 1 .. Len(h.index) |-> [ts |-> h.index[i], val |-> ToNumeric(h.data[c][i])]]

\* Subsequence of s at the positions satisfying keep, in order.
RECURSIVE SelectIdx(_, _, _)
SelectIdx(s, keep, i) ==
  IF i > Len(s) THEN <<>>
  ELSE (IF i \in keep THEN <<s[i]>> ELSE <<>>) \o SelectIdx(s, keep, i + 1)

\* A mutant of DropDuplicatesKeepLast: the first occurrence is kept.
DropDuplicatesKeepFirst(s) ==
  SelectIdx(s, {i \in 1 .. Len(s) : \A j \in 1 .. (i - 1) : s[j].ts # s[i].ts}, 1)

\* close.loc[~close.index.duplicated(keep="last")]
DropDuplicatesKeepLast(s) ==
  SelectIdx(s, {i \in 1 .. Len(s) : \A j \in (i + 1) .. Len(s) : s[j].ts # s[i].ts}, 1)

\* Series.dropna()
DropNa(s) == SelectIdx(s, {i \in 1 .. Len(s) : s[i].val.k # "nan"}, 1)

\* A mutant of SortIndex: the series is left in the order of the raw table.
SortIndexNone(s) == s

\* Series.sort_index(): ascending by key (the first smallest entry first).
RECURSIVE SortIndex(_)
SortIndex(s) ==
  IF Len(s) = 0 THEN <<>>
  ELSE LET i == CHOOSE i \in 1 .. Len(s) :
                  /\ \A j \in 1 .. Len(s) : ~TsLT(s[j].ts, s[i].ts)
                  /\ \A j \in 1 .. (i - 1) : TsLT(s[i].ts, s[j].ts)
       IN  <<s[i]>> \o SortIndex(SelectIdx(s, (1 .. Len(s)) \ {i}, 1))

\* A mutant of SelectClose: with no exact match, the first field's only
\* column is taken whatever the field is.
SelectCloseAnyField(h, ticker) ==
  IF h.shape = "multi"
  THEN IF Col("Close", ticker) \in h.columns
       THEN [err |-> NoErr, col |-> Col("Close", ticker)]
       ELSE IF Cardinality(h.columns) = 1
            THEN [err |-> NoErr, col |-> CHOOSE c \in h.columns : TRUE]
            ELSE [err |-> Err("ambiguous", <<{c.ticker : c \in h.columns}>>), col |-> NoCol]
  ELSE IF Col("Close", <<>>) \in h.columns
       THEN [err |-> NoErr, col |-> Col("Close", <<>>)]
       ELSE [err |-> Err("no_close", <<>>), col |-> NoCol]

\* extract_close_series, lines 74-96: the column the close series is read
\* from, or the error the function aborts with.
SelectClose(h, ticker) ==
  IF h.shape = "multi"
  THEN IF Col("Close", ticker) \in h.columns
       THEN [err |-> NoErr, col |-> Col("Close", ticker)]
       ELSE LET close_df == {c \in h.columns : c.field = "Close"}
            IN  IF close_df = {}
                THEN [err |-> Err("no_close", <<>>), col |-> NoCol]
                ELSE IF \E c \in close_df : c.ticker = ticker
                THEN [err |-> NoErr, col |-> Col("Close", ticker)]
                ELSE IF Cardinality(close_df) = 1
                THEN [err |-> NoErr, col |-> CHOOSE c \in close_df : TRUE]
                ELSE [err |-> Err("ambiguous", <<{c.ticker : c \in close_df}>>), col |-> NoCol]
  ELSE IF Col("Close", <<>>) \in h.columns
       THEN [err |-> NoErr, col |-> Col("Close", <<>>)]
       ELSE [err |-> Err("no_close", <<>>), col |-> NoCol]

\* extract_close_series, lines 98-100: coerce, re-key, drop duplicate dates
\* keeping the last, then drop the missing entries.
CleanSeries(h, c) == DropNa(DropDuplicatesKeepLast(KeyedSeries(h, c)))

\* extract_close_series(history, ticker)
ExtractCloseSeries(h, ticker) ==
  LET sel == SelectClose(h, ticker)
  IN  IF sel.err # NoErr
      THEN [err |-> sel.err, col |-> NoCol, series |-> <<>>]
      ELSE LET cleaned == CleanSeries(h, sel.col)
           IN  IF cleaned = <<>>
               THEN [err |-> Err("no_numeric", <<>>), col |-> sel.col, series |-> <<>>]
               ELSE [err |-> NoErr, col |-> sel.col, series |-> SortIndex(cleaned)]

\* ------------------------------------------------------------ daily frame
\* A mutant of InWindow: the end bound is exclusive.
InWindowEndExclusive(ts, start, end) == TsLE(start, ts) /\ TsLT(ts, end)

\* (close.index >= start) & (close.index <= end), for one index entry.
InWindow(ts, start, end) == TsLE(start, ts) /\ TsLE(ts, end)

\* f"Before {target.date().isoformat()}", f"On/After {target.date().isoformat()}"
BeforeLabel(target_ts) == [kind |-> "Before", ref |-> ToDate(target_ts)]

AfterLabel(target_ts) == [kind |-> "On/After", ref |-> ToDate(target_ts)]

\* A mutant of SegmentOf: the reference date itself is labelled "Before".
SegmentOfInclusiveBefore(dt, target_ts) ==
  IF DateLT(dt, ToDate(target_ts)) \/ dt = ToDate(target_ts)
  THEN BeforeLabel(target_ts) ELSE AfterLabel(target_ts)

\* lambda d: before_label if d < target.date() else after_label
SegmentOf(dt, target_ts) ==
  IF DateLT(dt, ToDate(target_ts)) THEN BeforeLabel(target_ts) ELSE AfterLabel(target_ts)

\* A mutant of BuildDailyFrame: an empty window is returned as an empty frame
\* instead of ending the run.
BuildDailyFrameNoCheck(series, target_ts, start, end) ==
  LET windowed ==
        SelectIdx(series, {i \in 1 .. Len(series) : InWindow(series[i].ts, start, end)}, 1)
  IN  [err |-> NoErr,
       df |-> [i \in 1 .. Len(windowed) |->
                 [Date    |-> ToDate(windowed[i].ts),
                  Close   |-> windowed[i].val.v,
                  Segment |-> SegmentOf(ToDate(windowed[i].ts), target_ts)]]]

\* build_daily_frame(close, target, start, end)
BuildDailyFrame(series, target_ts, start, end) ==
  LET windowed ==
        SelectIdx(series, {i \in 1 .. Len(series) : InWindow(series[i].ts, start, end)}, 1)
  IN  IF windowed = <<>>
      THEN [err |-> Err("empty_window", <<ToDate(start), ToDate(end)>>), df |-> <<>>]
      ELSE [err |-> NoErr,
            df |-> [i \in 1 .. Len(windowed) |->
                      [Date    |-> ToDate(windowed[i].ts),
                       Close   |-> windowed[i].val.v,
                       Segment |-> SegmentOf(ToDate(windowed[i].ts), target_ts)]]]

RECURSIVE SumClose(_)
SumClose(df) == IF df = <<>> THEN 0 ELSE df[1].Close + SumClose(Tail(df))

NoAverage == [num |-> 0, den |-> 0]

\* A mutant of Mean: integer division, the remainder is lost.
MeanFloor(df) == [num |-> SumClose(df) \div Len(df), den |-> 1]

\* daily_df["Close"].mean(): the sum over the count, as an exact fraction.
Mean(df) == [num |-> SumClose(df), den |-> Len(df)]

\* ------------------------------------------------------------ inputs
TickerIEF == <<Tok("IEF")>>

TickerBRK == <<Tok("BRK"), Dot, Tok("B")>>

TickerTLT == <<Tok("TLT")>>

\* The ticker argument.
Tickers == {TickerIEF, TickerBRK}

AsOf(fmt, y, m, d) == [fmt |-> fmt, y |-> y, m |-> m, d |-> d]

\* The as_of argument of the pipeline runs: two dates, one of them a month
\* end whose window bounds are clamped, a date that does not exist and a
\* string in another format.
AsOfInputs ==
  { AsOf("iso", 2024, 3, 15), AsOf("iso", 2023, 12, 31),
    AsOf("iso", 2024, 2, 30), AsOf("other", 2024, 3, 15) }

NoOutput == [given |-> FALSE, path |-> NoPath]

Given(dir, name) == [given |-> TRUE, path |-> Path(dir, name)]

\* The --output argument: absent, no extension, ".xlsx", another extension,
\* two extensions under a directory whose name holds a dot, a leading dot.
Outputs ==
  { NoOutput,
    Given(<<>>, <<Tok("report")>>),
    Given(<<>>, <<Tok("report"), Dot, Tok("xlsx")>>),
    Given(<<>>, <<Tok("report"), Dot, Tok("csv")>>),
    Given(<<"my.dir">>, <<Tok("archive"), Dot, Tok("tar"), Dot, Tok("gz")>>),
    Given(<<>>, <<Dot, Tok("hidden")>>) }

\* Every sequence over S of length lo .. hi.
SeqsOf(S, lo, hi) == UNION {[1 .. k -> S] : k \in lo .. hi}

\* What a raw entry may hold.
RawCells == {Num(100), NumStr(102), Text, NaN}

\* Columns differ in their values: a column's numbers are the base numbers
\* moved by an offset of the column.
ColOffset(c) ==
  (IF c.field = "Close" THEN 0 ELSE 1000) + (IF c.ticker = TickerTLT THEN 10 ELSE 0)

ColumnCell(c, cell) ==
  IF cell.k \in {"num", "numstr"} THEN [cell EXCEPT !.v = cell.v + ColOffset(c)] ELSE cell

\* A raw table: its shape, its columns, its index and every column's entries.
MkTable(shape, cols, rows) ==
  [shape   |-> shape,
   columns |-> cols,
   index   |-> [i \in 1 .. Len(rows) |-> rows[i][1]],
   data    |-> [c \in cols |-> [i \in 1 .. Len(rows) |-> ColumnCell(c, rows[i][2])]]]

NoTable == MkTable("flat", {}, <<>>)

\* Column sets of the pipeline runs.
PipelineColumns ==
  { <<"flat",  {Col("Close", <<>>), Col("Open", <<>>)}>>,
    <<"flat",  {Col("Open", <<>>)}>>,
    <<"multi", {Col("Close", TickerIEF), Col("Open", TickerIEF)}>>,
    <<"multi", {Col("Close", TickerTLT), Col("Open", TickerTLT)}>>,
    <<"multi", {Col("Close", TickerIEF), Col("Close", TickerTLT)}>> }

\* Index entries around the window: the day before it, the day before the
\* reference date, the reference date, the window's last day.
PipelineDates(target_ts, start, end) == {PrevDay(start), PrevDay(target_ts), target_ts, end}

PipelineCells == {Num(100), Num(103), Text}

\* What the provider may answer in the pipeline runs.
ProviderTables(target_ts, start, end) ==
  { MkTable(sc[1], sc[2], rows) :
      sc \in PipelineColumns,
      rows \in SeqsOf(PipelineDates(target_ts, start, end) \X PipelineCells, 0, MaxRows) }

\* Column sets handed to extract_close_series on its own: every non-empty
\* set of fields (one level) and of field x ticker pairs (two levels).
ExtractColumns ==
  { <<"flat", cs>> :
      cs \in (SUBSET {Col("Close", <<>>), Col("Open", <<>>)}) \ {{}} }
  \cup
  { <<"multi", cs>> :
      cs \in (SUBSET {Col(f, t) : f \in {"Close", "Open"}, t \in {TickerIEF, TickerTLT}}) \ {{}} }

ExtractDates(target_ts) == {PrevDay(target_ts), target_ts, NextDay(target_ts)}

\* The non-empty raw tables handed to extract_close_series on its own: every
\* column set with up to two rows, and every list of rows up to the bound
\* under a one-level and a two-level column set.
ExtractTables(target_ts) ==
  { MkTable(sc[1], sc[2], rows) :
      sc \in ExtractColumns,
      rows \in SeqsOf(ExtractDates(target_ts) \X RawCells, 1, 2) }
  \cup
  { MkTable(sc[1], sc[2], rows) :
      sc \in { <<"flat",  {Col("Close", <<>>), Col("Open", <<>>)}>>,
               <<"multi", {Col("Close", TickerTLT), Col("Open", TickerTLT)}>> },
      rows \in SeqsOf(ExtractDates(target_ts) \X RawCells, 1, MaxExtractRows) }

\* Index entries of the close series handed to build_daily_frame on its own.
FrameDates(target_ts, start, end) ==
  {PrevDay(start), start, PrevDay(target_ts), target_ts, NextDay(target_ts), end, NextDay(end)}

\* The close series extract_close_series can return over those entries, as
\* rows: non-empty, one numeric value per date, ascending.
FrameSeries(target_ts, start, end) ==
  { t \in SeqsOf(FrameDates(target_ts, start, end) \X {Num(100), Num(103)}, 1, MaxSeries) :
      \A i, j \in 1 .. Len(t) : i < j => TsLT(t[i][1], t[j][1]) }

\* ------------------------------------------------------------ state
VARIABLES
  pc,          \* the statement of main that runs next, "done" or "aborted"
  args,        \* parse_args(): ticker, as_of, output
  target,      \* main: target
  start_ts,    \* main: start_ts
  end_ts,      \* main: end_ts
  request,     \* what yf.download was asked for
  data,        \* download_history: data, the provider's answer
  history,     \* main: history
  close,       \* main: close
  close_col,   \* the column of history that close was read from
  daily_df,    \* main: daily_df
  average,     \* main: four_month_average
  output_path, \* main: output_path
  files,       \* the files written
  console,     \* the lines printed
  err          \* the SystemExit the run ended with

vars == <<pc, args, target, start_ts, end_ts, request, data, history, close,
          close_col, daily_df, average, output_path, files, console, err>>

NoRequest == [ticker |-> <<>>, start |-> NoDate, end |-> NoDate]

AsSeries(rows) == [i \in 1 .. Len(rows) |-> [ts |-> rows[i][1], val |-> rows[i][2]]]

\* main, line 141: the state once parse_args has returned.
Init ==
  /\ pc = "parse_date"
  /\ args \in [ticker : Tickers, as_of : AsOfInputs, output : Outputs]
  /\ target = NoDate
  /\ start_ts = NoTs
  /\ end_ts = NoTs
  /\ request = NoRequest
  /\ data = NoTable
  /\ history = NoTable
  /\ close = <<>>
  /\ close_col = NoCol
  /\ daily_df = <<>>
  /\ average = NoAverage
  /\ output_path = NoPath
  /\ files = {}
  /\ console = <<>>
  /\ err = NoErr

\* raise SystemExit(...): the run ends with the message of that kind, which
\* names the values in detail.
Abort(e) ==
  /\ pc' = "aborted"
  /\ err' = e

\* parse_date(args.as_of), main line 142
ParseDate ==
  /\ pc = "parse_date"
  /\ IF args.as_of.fmt = "iso" /\ IsValidDate(args.as_of.y, args.as_of.m, args.as_of.d)
     THEN /\ target' = Date(args.as_of.y, args.as_of.m, args.as_of.d)
          /\ pc' = "window"
          /\ err' = err
     ELSE /\ Abort(Err("invalid_date", <<args.as_of>>))
          /\ target' = target
  /\ UNCHANGED <<args, start_ts, end_ts, request, data, history, close, close_col,
                 daily_df, average, output_path, files, console>>

\* compute_window_bounds(target), main line 143
WindowBounds ==
  /\ pc = "window"
  /\ start_ts' = ComputeWindowBounds(target).start
  /\ end_ts' = ComputeWindowBounds(target).end
  /\ pc' = "download"
  /\ UNCHANGED <<args, target, request, data, history, close, close_col, daily_df,
                 average, output_path, files, console, err>>

\* download_history(args.ticker, start_ts, end_ts), main lines 144-145
DownloadHistory ==
  /\ pc = "download"
  /\ request' = [ticker |-> args.ticker,
                 start  |-> ToDate(start_ts),
                 end    |-> ToDate(NextDay(end_ts))]
  /\ \E answer \in ProviderTables(Timestamp(target), start_ts, end_ts) :
       /\ data' = answer
       /\ IF IsEmptyFrame(answer)
          THEN /\ Abort(Err("no_data", <<args.ticker, ToDate(start_ts), ToDate(end_ts)>>))
               /\ history' = history
          ELSE /\ history' = answer
               /\ pc' = "extract"
               /\ err' = err
  /\ UNCHANGED <<args, target, start_ts, end_ts, close, close_col, daily_df, average,
                 output_path, files, console>>

\* extract_close_series(history, args.ticker), main line 146
ExtractClose ==
  /\ pc = "extract"
  /\ LET r == ExtractCloseSeries(history, args.ticker)
     IN  IF r.err # NoErr
         THEN /\ Abort(r.err)
              /\ close' = close
              /\ close_col' = r.col
         ELSE /\ close' = r.series
              /\ close_col' = r.col
              /\ pc' = "frame"
              /\ err' = err
  /\ UNCHANGED <<args, target, start_ts, end_ts, request, data, history, daily_df,
                 average, output_path, files, console>>

\* build_daily_frame(close, pd.Timestamp(target), start_ts, end_ts), main line 147
BuildFrame ==
  /\ pc = "frame"
  /\ LET r == BuildDailyFrame(close, Timestamp(target), start_ts, end_ts)
     IN  IF r.err # NoErr
         THEN /\ Abort(r.err)
              /\ daily_df' = daily_df
         ELSE /\ daily_df' = r.df
              /\ pc' = "mean"
              /\ err' = err
  /\ UNCHANGED <<args, target, start_ts, end_ts, request, data, history, close,
                 close_col, average, output_path, files, console>>

\* main lines 148-154: the average and the output path
Aggregate ==
  /\ pc = "mean"
  /\ average' = Mean(daily_df)
  /\ output_path' = OutputPath(args, target)
  /\ pc' = "write"
  /\ UNCHANGED <<args, target, start_ts, end_ts, request, data, history, close,
                 close_col, daily_df, files, console, err>>

\* The file write_excel creates for the path it is given.
WrittenPath(path) == WithSuffix(path, Xlsx)

\* write_excel(daily_df, four_month_average, output_path), main line 155
WriteExcel ==
  /\ pc = "write"
  /\ files' = files \cup {[path    |-> Resolve(WrittenPath(output_path)),
                           daily   |-> daily_df,
                           summary |-> average]}
  /\ pc' = "print"
  /\ UNCHANGED <<args, target, start_ts, end_ts, request, data, history, close,
                 close_col, daily_df, average, output_path, console, err>>

\* The path main prints as "Excel output".
PrintedPath(path) == Resolve(path)

\* main lines 157-164: the console summary
PrintSummary ==
  /\ pc = "print"
  /\ console' = <<[ticker    |-> args.ticker,
                   reference |-> target,
                   window    |-> <<ToDate(start_ts), ToDate(end_ts)>>,
                   excel     |-> PrintedPath(output_path),
                   rows      |-> daily_df,
                   average   |-> average]>>
  /\ pc' = "done"
  /\ UNCHANGED <<args, target, start_ts, end_ts, request, data, history, close,
                 close_col, daily_df, average, output_path, files, err>>

Next ==
  \/ ParseDate
  \/ WindowBounds
  \/ DownloadHistory
  \/ ExtractClose
  \/ BuildFrame
  \/ Aggregate
  \/ WriteExcel
  \/ PrintSummary

\* One run of main.
Spec == Init /\ [][Next]_vars

\* ------------------------------------------------- the stages on their own
\* The state of main with the locals that are not yet assigned.
Unassigned ==
  /\ request = NoRequest
  /\ data = NoTable
  /\ history = NoTable
  /\ close = <<>>
  /\ close_col = NoCol
  /\ daily_df = <<>>
  /\ average = NoAverage
  /\ output_path = NoPath
  /\ files = {}
  /\ console = <<>>
  /\ err = NoErr

\* compute_window_bounds on every date of the years: main about to run line 143.
InitWindow ==
  /\ pc = "window"
  /\ \E y \in Years, m \in 1 .. 12, d \in 1 .. 31 :
       /\ IsValidDate(y, m, d)
       /\ args = [ticker |-> TickerIEF, as_of |-> AsOf("iso", y, m, d), output |-> NoOutput]
       /\ target = Date(y, m, d)
  /\ start_ts = NoTs
  /\ end_ts = NoTs
  /\ Unassigned

SpecWindow == InitWindow /\ [][WindowBounds]_vars

\* The reference date of the runs that start at a later stage.
StageTargets == {Date(2024, 3, 15), Date(2023, 12, 31)}

\* extract_close_series on every non-empty raw table: main about to run line 146.
InitExtract ==
  /\ pc = "extract"
  /\ \E t \in Tickers :
       args = [ticker |-> t, as_of |-> AsOf("iso", 2024, 3, 15), output |-> NoOutput]
  /\ target = Date(2024, 3, 15)
  /\ start_ts = ComputeWindowBounds(target).start
  /\ end_ts = ComputeWindowBounds(target).end
  /\ request = [ticker |-> args.ticker, start |-> ToDate(start_ts),
                end |-> ToDate(NextDay(end_ts))]
  /\ data \in ExtractTables(Timestamp(target))
  /\ history = data
  /\ close = <<>>
  /\ close_col = NoCol
  /\ daily_df = <<>>
  /\ average = NoAverage
  /\ output_path = NoPath
  /\ files = {}
  /\ console = <<>>
  /\ err = NoErr

SpecExtract == InitExtract /\ [][ExtractClose]_vars

\* build_daily_frame on every close series around the window: main about to
\* run line 147, the raw table being the one-level table that holds the series.
InitFrame ==
  /\ pc = "frame"
  /\ target \in StageTargets
  /\ args = [ticker |-> TickerIEF, as_of |-> AsOf("iso", target.y, target.m, target.d),
             output |-> NoOutput]
  /\ start_ts = ComputeWindowBounds(target).start
  /\ end_ts = ComputeWindowBounds(target).end
  /\ request = [ticker |-> args.ticker, start |-> ToDate(start_ts),
                end |-> ToDate(NextDay(end_ts))]
  /\ \E rows \in FrameSeries(Timestamp(target), start_ts, end_ts) :
       /\ data = MkTable("flat", {Col("Close", <<>>)}, rows)
       /\ close = AsSeries(rows)
  /\ history = data
  /\ close_col = Col("Close", <<>>)
  /\ daily_df = <<>>
  /\ average = NoAverage
  /\ output_path = NoPath
  /\ files = {}
  /\ console = <<>>
  /\ err = NoErr

SpecFrame == InitFrame /\ [][BuildFrame]_vars

\* ------------------------------------------------------------ properties
\* Vocabulary of the properties, stated on the raw table.
IsNumericRaw(cell) == cell.k \in {"num", "numstr"}

IsLastOccurrence(h, i) == \A j \in (i + 1) .. Len(h.index) : h.index[j] # h.index[i]

\* The rows of h whose entry in column c survives cleaning.
Survivors(h, c) ==
  {i \in 1 .. Len(h.index) : IsLastOccurrence(h, i) /\ IsNumericRaw(h.data[c][i])}

InRange(ts, lo, hi) == ~TsLT(ts, lo) /\ ~TsLT(hi, ts)

MonthIndex(x) == x.y * 12 + x.m

MinOf(a, b) == IF a < b THEN a ELSE b

\* C1: compute_window_bounds returns the reference date minus and plus exactly
\* two calendar months, the day of month kept and clamped to the last day of
\* the resulting month, both at midnight; 2024-03-15 gives 2024-01-15 and
\* 2024-05-15.
WindowIsTwoCalendarMonths ==
  pc = "download" =>
    /\ start_ts.tod = 0 /\ end_ts.tod = 0
    /\ start_ts.m \in 1 .. 12 /\ end_ts.m \in 1 .. 12
    /\ MonthIndex(start_ts) = MonthIndex(target) - 2
    /\ MonthIndex(end_ts) = MonthIndex(target) + 2
    /\ start_ts.d = MinOf(target.d, DaysInMonth(start_ts.y, start_ts.m))
    /\ end_ts.d = MinOf(target.d, DaysInMonth(end_ts.y, end_ts.m))
    /\ (target = Date(2024, 3, 15) =>
          /\ start_ts = Timestamp(Date(2024, 1, 15))
          /\ end_ts = Timestamp(Date(2024, 5, 15)))

\* C1 witness: the bounds of 2023-12-31, both clamped or kept at a month end.
WindowClampedReached ==
  /\ pc = "download"
  /\ target = Date(2023, 12, 31)
  /\ start_ts = Timestamp(Date(2023, 10, 31))
  /\ end_ts = Timestamp(Date(2024, 2, 29))

\* C2: every row of the daily frame is labelled "Before <D>" exactly when its
\* date is strictly earlier than the reference date D and "On/After <D>"
\* otherwise; no row carries another label.
SegmentLabelsExact ==
  \A i \in 1 .. Len(daily_df) :
    LET row == daily_df[i]
    IN  /\ row.Segment.ref = target
        /\ row.Segment.kind \in {"Before", "On/After"}
        /\ row.Segment.kind = "Before" <=> DateLT(row.Date, target)
        /\ row.Date = target => row.Segment.kind = "On/After"

\* C2 witness: a frame with a row dated D, labelled On/After, and a row before D.
SegmentBoundaryReached ==
  /\ pc = "mean"
  /\ \E i, j \in 1 .. Len(daily_df) :
       /\ daily_df[i].Date = target /\ daily_df[i].Segment.kind = "On/After"
       /\ daily_df[j].Segment.kind = "Before"

Rank(p) ==
  CASE p = "parse_date" -> 1 [] p = "window" -> 2 [] p = "download" -> 3
    [] p = "extract" -> 4 [] p = "frame" -> 5 [] p = "mean" -> 6
    [] p = "write" -> 7 [] p = "print" -> 8 [] OTHER -> 9

\* The stage a SystemExit of that kind is raised in.
ErrStage(kind) ==
  CASE kind = "invalid_date" -> 1 [] kind = "no_data" -> 3
    [] kind \in {"no_close", "ambiguous", "no_numeric"} -> 4
    [] kind = "empty_window" -> 5 [] OTHER -> 0

\* The run has been through stage k (it ran to its end or ended in it).
Through(k) ==
  IF pc = "aborted" THEN ErrStage(err.kind) >= k ELSE Rank(pc) > k

EndedIn(k, kinds) == pc = "aborted" /\ err.kind \in kinds /\ ErrStage(err.kind) = k

ValidAsOf ==
  /\ args.as_of.fmt = "iso"
  /\ args.as_of.m \in 1 .. 12
  /\ args.as_of.d >= 1
  /\ args.as_of.d <= DaysInMonth(args.as_of.y, args.as_of.m)

EmptyAnswer == Len(data.index) = 0 \/ data.columns = {}

CloseResolvable ==
  LET closeCols == {c \in history.columns : c.field = "Close"}
  IN  IF history.shape = "flat" THEN closeCols # {}
      ELSE Col("Close", args.ticker) \in closeCols \/ Cardinality(closeCols) = 1

SomeSurvivor == Survivors(history, close_col) # {}

SomeSurvivorInWindow ==
  \E i \in Survivors(history, close_col) : InRange(history.index[i], start_ts, end_ts)

AbortLeavesNothing ==
  /\ pc = "aborted" =>
       /\ files = {} /\ console = <<>> /\ output_path = NoPath
       /\ average = NoAverage /\ daily_df = <<>>
       /\ ErrStage(err.kind) # 0
       /\ ErrStage(err.kind) < 2 => target = NoDate /\ start_ts = NoTs /\ end_ts = NoTs
       /\ ErrStage(err.kind) < 3 => request = NoRequest /\ data = NoTable
       /\ ErrStage(err.kind) < 4 => history = NoTable /\ close_col = NoCol
       /\ ErrStage(err.kind) < 5 => close = <<>>
  /\ Through(1) /\ ~ValidAsOf => EndedIn(1, {"invalid_date"})
  /\ Through(3) /\ EmptyAnswer => EndedIn(3, {"no_data"})
  /\ Through(4) /\ ~CloseResolvable => EndedIn(4, {"no_close", "ambiguous"})
  /\ Through(4) /\ CloseResolvable /\ ~SomeSurvivor => EndedIn(4, {"no_numeric"})
  /\ Through(5) /\ ~SomeSurvivorInWindow => EndedIn(5, {"empty_window"})
  /\ files # {} =>
       /\ Cardinality(files) = 1
       /\ err = NoErr
       /\ ValidAsOf /\ ~EmptyAnswer /\ CloseResolvable /\ SomeSurvivor
       /\ SomeSurvivorInWindow
  /\ console # <<>> => files # {}

StagesOnlyAdvance ==
  /\ pc \in {"aborted", "done"} => UNCHANGED vars
  /\ pc' # pc => pc' = "aborted" \/ Rank(pc') = Rank(pc) + 1
  /\ files # {} => files' = files

\* C3: each of the error kinds ends the run at its stage: no later stage has
\* run, no file is written, nothing is printed and no stage runs again; a
\* file is written only in a run in which every check passed.
ErrorsAreFatal == [](AbortLeavesNothing) /\ [][StagesOnlyAdvance]_vars

\* C3 witness: a run ended by an empty window, its close series extracted.
EmptyWindowAbortReached ==
  /\ pc = "aborted"
  /\ err.kind = "empty_window"
  /\ close # <<>>
  /\ files = {}

\* C4: for every date of the raw table the close series holds the value of
\* the last-occurring entry and no earlier one; when that entry is not
\* numeric the date is absent from the series.
DedupKeepsLast ==
  pc # "extract" /\ close_col # NoCol =>
    /\ \A i \in 1 .. Len(history.index) :
         LET same == {k \in 1 .. Len(close) : close[k].ts = history.index[i]}
         IN  IF i \in Survivors(history, close_col)
             THEN /\ Cardinality(same) = 1
                  /\ \A k \in same : close[k].val = Num(history.data[close_col][i].v)
             ELSE IsLastOccurrence(history, i) => same = {}
    /\ \A k \in 1 .. Len(close) :
         \E i \in Survivors(history, close_col) : history.index[i] = close[k].ts

\* C4 witness: a date with a numeric entry followed by a non-numeric last
\* entry is absent from the series that was returned.
DedupDroppedDateReached ==
  /\ pc = "frame"
  /\ \E i, j \in 1 .. Len(history.index) :
       /\ i < j
       /\ history.index[i] = history.index[j]
       /\ IsNumericRaw(history.data[close_col][i])
       /\ ~IsNumericRaw(history.data[close_col][j])
       /\ IsLastOccurrence(history, j)
       /\ \A k \in 1 .. Len(close) : close[k].ts # history.index[i]

\* C5: a close series that extract_close_series returns is non-empty, holds
\* numbers only and is in strictly ascending date order (so its dates are
\* pairwise distinct); when cleaning leaves no entry the function aborts.
CloseSeriesClean ==
  /\ pc = "frame" =>
       /\ close # <<>>
       /\ \A k \in 1 .. Len(close) : close[k].val.k = "num"
       /\ \A k, l \in 1 .. Len(close) : k < l => TsLT(close[k].ts, close[l].ts)
       /\ \A k, l \in 1 .. Len(close) : k # l => ToDate(close[k].ts) # ToDate(close[l].ts)
  /\ pc # "extract" /\ close_col # NoCol /\ Survivors(history, close_col) = {} =>
       pc = "aborted" /\ err.kind = "no_numeric" /\ close = <<>>

\* C5 witness: a series of two dates returned for a raw table that was out
\* of order and held more rows than the series.
UnsortedTableCleanedReached ==
  /\ pc = "frame"
  /\ Len(close) >= 2
  /\ Len(history.index) > Len(close)
  /\ \E i, j \in 1 .. Len(history.index) : i < j /\ TsLT(history.index[j], history.index[i])

\* The final extension of a name: from its last dot, when that dot is neither
\* the first nor the last character.
FinalExtAt(name) ==
  {i \in 2 .. (Len(name) - 1) : name[i].dot /\ \A j \in (i + 1) .. Len(name) : ~name[j].dot}

Base(name) ==
  IF FinalExtAt(name) = {} THEN name
  ELSE SubSeq(name, 1, (CHOOSE i \in FinalExtAt(name) : TRUE) - 1)

RequestedPath ==
  IF args.output.given THEN args.output.path
  ELSE Path(<<>>, args.ticker \o <<Tok("_"), IsoTok(target), Tok("_daily_closes"), Dot, Tok("xlsx")>>)

\* C6: the file write_excel creates has the extension ".xlsx": a differing
\* final extension is replaced, a missing one is added, directory and stem
\* are those of the requested path.
ExtensionEnforced ==
  \A f \in files :
    LET w == f.path
        n == Len(w.name)
    IN  /\ w.dir = <<"/cwd">> \o RequestedPath.dir
        /\ n > 2
        /\ SubSeq(w.name, n - 1, n) = <<Dot, Tok("xlsx")>>
        /\ SubSeq(w.name, 1, n - 2) = Base(RequestedPath.name)
        /\ (args.output = Given(<<>>, <<Tok("report"), Dot, Tok("csv")>>) =>
              w.name = <<Tok("report"), Dot, Tok("xlsx")>>)
        /\ (args.output = Given(<<>>, <<Dot, Tok("hidden")>>) =>
              w.name = <<Dot, Tok("hidden"), Dot, Tok("xlsx")>>)
        /\ (~args.output.given => w.name = RequestedPath.name)

\* C6 witness: --output my.dir/archive.tar.gz was written as archive.tar.xlsx.
ExtensionReplacedReached ==
  /\ pc = "done"
  /\ args.output = Given(<<"my.dir">>, <<Tok("archive"), Dot, Tok("tar"), Dot, Tok("gz")>>)
  /\ \E f \in files :
       f.path = Path(<<"/cwd", "my.dir">>, <<Tok("archive"), Dot, Tok("tar"), Dot, Tok("xlsx")>>)

\* C7: in the two-level shape a single "Close" column is selected whatever
\* ticker was requested; the run aborts with the list of available columns
\* only when several "Close" columns exist and none is the requested
\* ticker's; the series is never read from a column of another field.
SingleCloseColumnSelected ==
  pc # "extract" =>
    LET closeCols == {c \in history.columns : c.field = "Close"}
    IN  /\ history.shape = "multi" /\ Cardinality(closeCols) = 1 =>
             /\ close_col \in closeCols
             /\ err.kind \notin {"ambiguous", "no_close"}
        /\ err.kind = "ambiguous" <=>
             /\ history.shape = "multi"
             /\ Cardinality(closeCols) > 1
             /\ \A c \in closeCols : c.ticker # args.ticker
        /\ err.kind = "ambiguous" => err.detail = <<{c.ticker : c \in closeCols}>>
        /\ pc = "frame" =>
             /\ close_col \in closeCols
             /\ \A k \in 1 .. Len(close) :
                  \E i \in 1 .. Len(history.index) :
                    /\ history.index[i] = close[k].ts
                    /\ IsNumericRaw(history.data[close_col][i])
                    /\ history.data[close_col][i].v = close[k].val.v

\* C7 witness: IEF was requested, the table's only Close column is TLT's and
\* the series was read from it, an Open column being there too.
OtherTickerCloseReached ==
  /\ pc = "frame"
  /\ history.shape = "multi"
  /\ args.ticker = TickerIEF
  /\ close_col = Col("Close", TickerTLT)
  /\ Col("Open", TickerTLT) \in history.columns
  /\ close # <<>>

RECURSIVE SumRows(_, _, _)
SumRows(h, c, S) ==
  IF S = {} THEN 0
  ELSE LET i == CHOOSE i \in S : TRUE
       IN  h.data[c][i].v + SumRows(h, c, S \ {i})

\* The rows of the example: closes 100, 102, 98.
ExampleRows ==
  [i \in 1 .. 3 |->
     [Date    |-> Date(2024, 3, 14 + i),
      Close   |-> <<100, 102, 98>>[i],
      Segment |-> AfterLabel(Timestamp(Date(2024, 3, 15)))]]

FinalRows ==
  {i \in Survivors(history, close_col) : InRange(history.index[i], start_ts, end_ts)}

\* C8: the reported average is the unweighted mean of the closes of the final
\* daily rows, each counted once: average times the number of rows equals
\* the sum of the closes of the raw entries that survived cleaning and lie
\* in the window (closes 100, 102, 98 give 100); it is the value written to
\* the summary and printed.
AverageIsMeanOfFinalRows ==
  pc \in {"write", "print", "done"} =>
    /\ average.den = Cardinality(FinalRows)
    /\ average.den = Len(daily_df)
    /\ average.den > 0
    /\ average.num = SumRows(history, close_col, FinalRows)
    /\ (\A i \in 1 .. Len(daily_df) : daily_df[i].Close = 100) => average.num = 100 * average.den
    /\ Mean(ExampleRows).num = 100 * Mean(ExampleRows).den
    /\ \A f \in files : f.summary = average
    /\ \A i \in 1 .. Len(console) : console[i].average = average

\* C8 witness: a finished run whose raw table held an entry that does not
\* contribute to the average.
AverageExcludesReached ==
  /\ pc = "done"
  /\ Len(daily_df) >= 1
  /\ Len(history.index) > Len(daily_df)
  /\ \E i \in 1 .. Len(history.index) :
       /\ IsNumericRaw(history.data[close_col][i])
       /\ ~InRange(history.index[i], start_ts, end_ts)

\* C9: build_daily_frame returns exactly the entries of the close series
\* dated within [start, end], both bounds included, none added or repeated,
\* in ascending date order; it aborts naming the range when none is inside.
WindowFilterExact ==
  LET inside == {k \in 1 .. Len(close) : InRange(close[k].ts, start_ts, end_ts)}
  IN  /\ pc = "mean" =>
           /\ Len(daily_df) = Cardinality(inside)
           /\ inside # {}
           /\ \A k \in inside :
                \E i \in 1 .. Len(daily_df) :
                  /\ daily_df[i].Date = ToDate(close[k].ts)
                  /\ daily_df[i].Close = close[k].val.v
           /\ \A i, j \in 1 .. Len(daily_df) :
                i < j => DateLT(daily_df[i].Date, daily_df[j].Date)
      /\ pc = "aborted" =>
           /\ inside = {}
           /\ err = Err("empty_window", <<ToDate(start_ts), ToDate(end_ts)>>)
           /\ daily_df = <<>>
      /\ pc # "frame" /\ inside = {} => pc = "aborted"

\* C9 witness: a frame holding the entries dated start and end, built from a
\* series that also held an entry outside the window.
WindowBoundsKeptReached ==
  /\ pc = "mean"
  /\ Len(close) > Len(daily_df)
  /\ \E i, j \in 1 .. Len(daily_df) :
       /\ daily_df[i].Date = ToDate(start_ts)
       /\ daily_df[j].Date = ToDate(end_ts)

\* C10: in a finished run the path printed as "Excel output" is the path of
\* the file write_excel created.
PrintedPathIsWrittenFile ==
  pc = "done" =>
    \A i \in 1 .. Len(console) : \E f \in files : f.path = console[i].excel

====
